---------------------------- MODULE Spec2Model ----------------------------
(***************************************************************************)
(* Incremental 3D convex hull of geom_algo_lib/convex_hull.cpp.            *)
(*                                                                         *)
(* Points have integer coordinates, and every geometric predicate of the   *)
(* source is computed exactly.  A face's normal is kept as the integer     *)
(* cross product (b-a) x (c-a); the source's unit normal is that vector    *)
(* scaled by 1/|n| > 0, so every sign and every comparison of distances to *)
(* ONE face is the same for both.  A scaled distance d is an integer, the  *)
(* real distance is d/|n|, and |n| is bounded on the grid, so the real     *)
(* distance exceeds the (tiny, positive) PLANE_DIST_TOL exactly when       *)
(* d >= 1.  Coordinates are multiples of 4, so that the centroid of four   *)
(* points (m_center) is again an integer point.                            *)
(***************************************************************************)
EXTENDS Integers, Sequences, FiniteSets, TLC

\* ------------------------------------------------------------------ bounds
\* The largest number of input points, how many points fewer than the four a
\* simplex needs the smallest input has, and how many points of Pool the
\* inputs are drawn from.
MaxPts == 7
MaxFewer == 1
PoolSize == 8

\* The points the inputs are drawn from, on the grid of a cube of side 8:
\* corners, the centroid, centres of faces and midpoints of edges.  Five of
\* the first eight lie in the plane x = 0.
Pool ==
  << <<0,8,0>>, <<4,4,4>>, <<4,8,8>>, <<8,4,0>>, <<0,0,0>>, <<0,0,8>>,
     <<0,8,8>>, <<0,4,4>>, <<0,4,0>>, <<8,8,8>>, <<8,0,0>>, <<8,0,8>> >>

\* ------------------------------------------------------------ vec3 algebra
Sub(u, v) == << u[1] - v[1], u[2] - v[2], u[3] - v[3] >>
Add3(u, v) == << u[1] + v[1], u[2] + v[2], u[3] + v[3] >>
Scale(k, u) == << k * u[1], k * u[2], k * u[3] >>
Dot(u, v) == u[1] * v[1] + u[2] * v[2] + u[3] * v[3]
Cross(u, v) ==
  << u[2] * v[3] - u[3] * v[2], u[3] * v[1] - u[1] * v[3], u[1] * v[2] - u[2] * v[1] >>
LenSq(u) == Dot(u, u)
AbsInt(x) == IF x < 0 THEN -x ELSE x

\* vec3::unset, and vec3::unit(): the invalid sentinel for a zero vector, else
\* the direction (kept unnormalised, see the head of the module).
Vec3Unset == [ok |-> FALSE, v |-> <<0,0,0>>]
Unit(u) == IF LenSq(u) = 0 THEN Vec3Unset ELSE [ok |-> TRUE, v |-> u]
Reverse(n) == [ok |-> n.ok, v |-> Scale(-1, n.v)]

\* ------------------------------------------------------------- index_pair
Unset == -1
IndexPair(i, j) == [p |-> i, q |-> j]
PairUnset == IndexPair(Unset, Unset)
PairContains(pr, v) == pr.p = v \/ pr.q = v
PairClear(pr, v) ==
  IF pr.p = v THEN [pr EXCEPT !.p = Unset]
  ELSE IF pr.q = v THEN [pr EXCEPT !.q = Unset]
  ELSE pr
\* add(): <<ok, pair>>; fails when both slots are taken.
PairAdd(pr, v) ==
  IF pr.p = Unset THEN <<TRUE, [pr EXCEPT !.p = v]>>
  ELSE IF pr.q = Unset THEN <<TRUE, [pr EXCEPT !.q = v]>>
  ELSE <<FALSE, pr>>
\* The map key of an edge: equal for (i, j) and (j, i).
EdgeKey(e) == IF e.p <= e.q THEN <<e.p, e.q>> ELSE <<e.q, e.p>>

\* --------------------------------------------------------------- hull_face
HullFace(idVal, v1, v2, v3) ==
  [id |-> idVal, a |-> v1, b |-> v2, c |-> v3, normal |-> Vec3Unset]
FaceUnset == HullFace(Unset, Unset, Unset, Unset)
IsValid(f) == f.id # Unset /\ f.a # Unset /\ f.b # Unset /\ f.c # Unset
Flip(f) == [f EXCEPT !.b = f.c, !.c = f.b, !.normal = Reverse(f.normal)]
\* Edge 2 taken as (a, c): against the winding of the face.
EdgeUnwound(f, ei) ==
  CASE ei = 0 -> IndexPair(f.a, f.b)
    [] ei = 1 -> IndexPair(f.b, f.c)
    [] ei = 2 -> IndexPair(f.a, f.c)
Edge(f, ei) ==
  CASE ei = 0 -> IndexPair(f.a, f.b)
    [] ei = 1 -> IndexPair(f.b, f.c)
    [] ei = 2 -> IndexPair(f.c, f.a)
ContainsVertex(f, vi) == vi = Unset /\ (vi = f.a \/ vi = f.b \/ vi = f.c)
FaceVerts(f) == {f.a, f.b, f.c}

\* ------------------------------------------------------------------ state
VARIABLES
  pts,            \* m_pts: index 0..n-1 -> coordinates
  nPts,           \* m_nPts
  outsidePts,     \* m_outsidePts
  faces,          \* m_faces: id -> hull_face
  edgeFaceMap,    \* m_edgeFaceMap: edge key -> index_pair of face ids
  center,         \* m_center
  best,           \* create_initial_simplex: best[4]
  curFaceId,      \* compute: next face id
  faceQ,          \* compute: face work queue
  fi, fpi,        \* compute: dequeued face id, farthest point index
  popQ,           \* compute: cavity flood queue
  horizonEdges,   \* compute: horizon edges of the current cavity
  poppedFaces,    \* compute: faces removed by the current flood
  newFaces,       \* compute: faces created for the current cavity
  centerTested,   \* ids of the faces set_face has tested against m_center
  farSelected,    \* the point indices get_farthest_pt has returned so far
  pc,             \* position in compute()
  err,            \* the message thrown, "" when none
  errAt           \* the source line of the throw, 0 when none

vars == << pts, nPts, outsidePts, faces, edgeFaceMap, center, best, curFaceId,
           faceQ, fi, fpi, popQ, horizonEdges, poppedFaces, newFaces,
           centerTested, farSelected, pc, err, errAt >>

\* The messages of the throw statements.
ErrFewPoints == "Failed to create the initial simplex"
ErrCoincident == "Failed to create the initial simplex"
ErrCollinear == "Failed to create the initial simplex"
ErrCoplanar == "Failed to create the initial simplex"
ErrEdgeMap == "Failed to add face to the edge map."
\* The source lines of the throw statements.
ThrowFewPoints == 266
ThrowCoincident == 320
ThrowCollinear == 336
ThrowCoplanar == 351
ThrowEdgeMap == 156

\* PLANE_DIST_TOL in units of the scaled distance (see the head of the module).
PlaneDistTol == 0

\* ----------------------------------------------------------------- inputs
RECURSIVE SortedSeq(_)
SortedSeq(S) ==
  IF S = {} THEN << >>
  ELSE LET m == CHOOSE x \in S : \A y \in S : x <= y
       IN <<m>> \o SortedSeq(S \ {m})

\* The inputs: the points of a subset of the pool, in pool order.
Inputs ==
  { [i \in 0..(Cardinality(S) - 1) |-> Pool[SortedSeq(S)[i + 1]]] :
      S \in { T \in SUBSET (1..PoolSize) :
                Cardinality(T) >= 4 - MaxFewer /\ Cardinality(T) <= MaxPts } }

\* ------------------------------------------------------- registry helpers
GetFace(fs, id) == IF id \in DOMAIN fs THEN fs[id] ELSE FaceUnset
HasFace(fs, id) == id \in DOMAIN fs
PutFace(fs, f) == [k \in DOMAIN fs \cup {f.id} |-> IF k = f.id THEN f ELSE fs[k]]
EraseFace(fs, id) == [k \in DOMAIN fs \ {id} |-> fs[k]]
HasEdge(em, e) == EdgeKey(e) \in DOMAIN em
GetEdgeFaces(em, e) == IF HasEdge(em, e) THEN em[EdgeKey(e)] ELSE PairUnset
PutEdge(em, e, pr) ==
  [k \in DOMAIN em \cup {EdgeKey(e)} |-> IF k = EdgeKey(e) THEN pr ELSE em[k]]

FacePlaneDist(face, pt) == Dot(Sub(pt, pts[face.a]), face.normal.v)
FaceVisible(face, pt) ==
  IF face.normal.ok THEN FacePlaneDist(face, pt) > PlaneDistTol ELSE FALSE

\* set_face, lines 146-149: the normal, and the flip when m_center sees the face.
FaceNormal(face) ==
  Unit(Cross(Sub(pts[face.b], pts[face.a]), Sub(pts[face.c], pts[face.a])))
OrientFace(face, ctr) ==
  LET f == [face EXCEPT !.normal = FaceNormal(face)]
  IN IF FaceVisible(f, ctr) THEN Flip(f) ELSE f

\* The loop over the edges ended one edge early.
RECURSIVE AddEdgesShort(_, _, _)
AddEdgesShort(em, f, ei) ==
  IF ei > 1 THEN [em |-> em, ok |-> TRUE]
  ELSE LET r == PairAdd(GetEdgeFaces(em, Edge(f, ei)), f.id)
       IN IF r[1] THEN AddEdgesShort(PutEdge(em, Edge(f, ei), r[2]), f, ei + 1)
          ELSE [em |-> PutEdge(em, Edge(f, ei), r[2]), ok |-> FALSE]

\* set_face, lines 153-158: the face id added to its three edges in turn; the
\* first failing add() throws, leaving the earlier edges updated.
RECURSIVE AddEdges(_, _, _)
AddEdges(em, f, ei) ==
  IF ei > 2 THEN [em |-> em, ok |-> TRUE]
  ELSE LET r == PairAdd(GetEdgeFaces(em, Edge(f, ei)), f.id)
       IN IF r[1] THEN AddEdges(PutEdge(em, Edge(f, ei), r[2]), f, ei + 1)
          ELSE [em |-> PutEdge(em, Edge(f, ei), r[2]), ok |-> FALSE]

\* set_face: [face, faces, em, ok].
SetFace(face, fs, em, ctr) ==
  LET f == OrientFace(face, ctr)
      r == AddEdges(em, f, 0)
  IN [face |-> f, faces |-> PutFace(fs, f), em |-> r.em, ok |-> r.ok]

\* ------------------------------------------------- create_initial_simplex
SetMax(S) == CHOOSE x \in S : \A y \in S : y <= x
SetMin(S) == CHOOSE x \in S : \A y \in S : x <= y
PtIdx == 0..(nPts - 1)

\* bounds[ei], lines 275-301: the first point with the least (ei even) or the
\* greatest (ei odd) coordinate ei / 2; the comparisons are strict.
BoundIdx(ei) ==
  LET k == (ei \div 2) + 1
      vals == { pts[i][k] : i \in PtIdx }
      ext == IF ei % 2 = 0 THEN SetMin(vals) ELSE SetMax(vals)
  IN SetMin({ i \in PtIdx : pts[i][k] = ext })

\* best[0], best[1] and maxD, lines 303-317: the first pair (i < j, in loop
\* order) of the six extremal points at the greatest squared distance.
PairDist(ij) == LenSq(Sub(pts[BoundIdx(ij[1])], pts[BoundIdx(ij[2])]))
BoundPairs == { ij \in (0..5) \X (0..5) : ij[1] < ij[2] }
BestPair ==
  LET m == SetMax({ PairDist(ij) : ij \in BoundPairs })
      top == { ij \in BoundPairs : PairDist(ij) = m }
      first == CHOOSE ij \in top :
                 \A kl \in top : ij[1] < kl[1] \/ (ij[1] = kl[1] /\ ij[2] <= kl[2])
  IN [maxD |-> m, b0 |-> BoundIdx(first[1]), b1 |-> BoundIdx(first[2])]

\* Line 328: the squared distance of point pi from the line ref + t * w, times
\* |w|^2 (the same positive factor for every pi).
LineDistSq(pi, ref, w) == LenSq(Cross(Sub(pts[pi], ref), w))
\* Line 343: the distance of point pi from the plane through ref with normal
\* nrm, times |nrm|.
PlaneDistAbs(pi, ref, nrm) == AbsInt(Dot(nrm, Sub(pts[pi], ref)))

\* The values of best[2]: a point at the greatest distance from the line.  The
\* source keeps the first strictly greater value; its distances go through
\* unit(), whose rounding may order exactly equal distances either way, so any
\* point at the greatest exact distance may be kept.
Best2Set(b0, b1) ==
  LET w == Sub(pts[b1], pts[b0])
      m == SetMax({ LineDistSq(i, pts[b0], w) : i \in PtIdx })
  IN { i \in PtIdx : LineDistSq(i, pts[b0], w) = m }
Best2Max(b0, b1) ==
  SetMax({ LineDistSq(i, pts[b0], Sub(pts[b1], pts[b0])) : i \in PtIdx })

SimplexNormal(b0, b1, b2) == Cross(Sub(pts[b1], pts[b0]), Sub(pts[b2], pts[b0]))
Best3Set(b0, b1, b2) ==
  LET nrm == SimplexNormal(b0, b1, b2)
      m == SetMax({ PlaneDistAbs(i, pts[b0], nrm) : i \in PtIdx })
  IN { i \in PtIdx : PlaneDistAbs(i, pts[b0], nrm) = m }
Best3Max(b0, b1, b2) ==
  SetMax({ PlaneDistAbs(i, pts[b0], SimplexNormal(b0, b1, b2)) : i \in PtIdx })

Fail(msg, line) == [ok |-> FALSE, err |-> msg, at |-> line, best |-> << >>]
Chosen(b) == [ok |-> TRUE, err |-> "", at |-> 0, best |-> b]

\* The size test off by one, and the degeneracy test made strict.
TooFewPointsLow(n) == n < 3
DegenerateStrict(maxD) == maxD < 0

\* Line 265: too few points for a simplex.
TooFewPoints(n) == n < 4
\* Lines 319, 335, 350: the greatest distance found is not positive.
Degenerate(maxD) == maxD <= 0

\* Lines 264-353: the outcomes of the choice of best[0..3] (best is kept as a
\* sequence, best[i] of the source being best[i + 1]).
SimplexOutcomes ==
  IF TooFewPoints(nPts) THEN { Fail(ErrFewPoints, ThrowFewPoints) }
  ELSE IF nPts = 4 THEN { Chosen(<<0, 1, 2, 3>>) }
  ELSE LET bp == BestPair
       IN IF Degenerate(bp.maxD) THEN { Fail(ErrCoincident, ThrowCoincident) }
          ELSE IF Degenerate(Best2Max(bp.b0, bp.b1))
                 THEN { Fail(ErrCollinear, ThrowCollinear) }
          ELSE UNION { IF Degenerate(Best3Max(bp.b0, bp.b1, b2))
                         THEN { Fail(ErrCoplanar, ThrowCoplanar) }
                         ELSE { Chosen(<<bp.b0, bp.b1, b2, b3>>) :
                                  b3 \in Best3Set(bp.b0, bp.b1, b2) } :
                       b2 \in Best2Set(bp.b0, bp.b1) }

\* Lines 355-359: the four faces of the simplex, ids faceIndex .. faceIndex + 3.
SimplexFaces(b, faceIndex) ==
  << HullFace(faceIndex,     b[1], b[2], b[3]),
     HullFace(faceIndex + 1, b[1], b[3], b[4]),
     HullFace(faceIndex + 2, b[2], b[3], b[4]),
     HullFace(faceIndex + 3, b[1], b[2], b[4]) >>

\* Lines 361-366: m_center.
SimplexCenter(b) ==
  LET sum == Add3(Add3(pts[b[1]], pts[b[2]]), Add3(pts[b[3]], pts[b[4]]))
  IN << sum[1] \div 4, sum[2] \div 4, sum[3] \div 4 >>

\* Lines 368-374: set_face on each valid simplex face in turn; a throw ends it.
RECURSIVE SeedFaces(_, _, _)
SeedFaces(simplex, i, st) ==
  IF i > Len(simplex) \/ ~st.ok THEN st
  ELSE IF ~IsValid(simplex[i]) THEN SeedFaces(simplex, i + 1, st)
  ELSE LET r == SetFace(simplex[i], st.faces, st.em, st.ctr)
       IN SeedFaces(simplex, i + 1,
            [st EXCEPT !.faces = r.faces, !.em = r.em, !.ok = r.ok,
                       !.set = Append(st.set, r.face),
                       !.tested = st.tested \cup {r.face.id}])

\* Lines 378-395 for one point: is it erased from m_outsidePts?  The faces are
\* tried in turn: a face having the point as a vertex, or seeing it, ends the scan.
RECURSIVE SimplexKeeps(_, _, _)
SimplexKeeps(simplex, i, opi) ==
  IF i > Len(simplex) THEN FALSE
  ELSE IF ContainsVertex(simplex[i], opi) THEN FALSE
  ELSE IF FaceVisible(simplex[i], pts[opi]) THEN TRUE
  ELSE SimplexKeeps(simplex, i + 1, opi)
PruneOutside(simplex, outside) ==
  { opi \in outside : SimplexKeeps(simplex, 1, opi) }

\* pop_face without line 177: the cleared pair is not stored back.
RECURSIVE PopEdgesNoStore(_, _, _, _)
PopEdgesNoStore(face, fs, ei, st) ==
  IF ei > 2 THEN st
  ELSE LET edge == Edge(face, ei)
           fPair == GetEdgeFaces(st.em, edge)
       IN IF ~HasEdge(st.em, edge) \/ ~PairContains(fPair, face.id)
          THEN PopEdgesNoStore(face, fs, ei + 1,
                 [st EXCEPT !.edges = Append(st.edges, edge),
                            !.adj = Append(st.adj, FaceUnset)])
          ELSE LET cleared == PairClear(fPair, face.id)
                   adjFid == IF cleared.p = Unset THEN cleared.q ELSE cleared.p
               IN PopEdgesNoStore(face, fs, ei + 1,
                    [st EXCEPT !.edges = Append(st.edges, edge),
                               !.adj = Append(st.adj, GetFace(fs, adjFid))])

\* ---------------------------------------------------------------- pop_face
\* Lines 168-182: the three edges of the erased face in turn.  st.em is the
\* edge map so far, st.edges and st.adj the out-parameters.
RECURSIVE PopEdges(_, _, _, _)
PopEdges(face, fs, ei, st) ==
  IF ei > 2 THEN st
  ELSE LET edge == Edge(face, ei)
           fPair == GetEdgeFaces(st.em, edge)
       IN IF ~HasEdge(st.em, edge) \/ ~PairContains(fPair, face.id)
          THEN PopEdges(face, fs, ei + 1,
                 [st EXCEPT !.edges = Append(st.edges, edge),
                            !.adj = Append(st.adj, FaceUnset)])
          ELSE LET cleared == PairClear(fPair, face.id)
                   adjFid == IF cleared.p = Unset THEN cleared.q ELSE cleared.p
               IN PopEdges(face, fs, ei + 1,
                    [st EXCEPT !.em = PutEdge(st.em, edge, cleared),
                               !.edges = Append(st.edges, edge),
                               !.adj = Append(st.adj, GetFace(fs, adjFid))])

\* pop_face: [face, faces, em, edges, adj]; face is invalid when id is not live.
PopFace(id, fs, em) ==
  IF HasFace(fs, id)
  THEN LET face == fs[id]
           rest == EraseFace(fs, id)
           st == PopEdges(face, rest, 0, [em |-> em, edges |-> << >>, adj |-> << >>])
       IN [face |-> face, faces |-> rest, em |-> st.em,
           edges |-> st.edges, adj |-> st.adj]
  ELSE [face |-> HullFace(Unset, Unset, Unset, Unset), faces |-> fs, em |-> em,
        edges |-> << >>, adj |-> << >>]

\* --------------------------------------------------------- get_farthest_pt
\* The values ptIndex can end with (Unset: none, the call returns false).  The
\* loop keeps the first strictly greater distance in the iteration order of
\* m_outsidePts, which is unspecified: any point at the greatest distance.
\* The distance to a face whose normal is invalid is not a number the source
\* determines; any outcome is allowed for such a face.
FarCandidates(face, outside) ==
  { i \in outside : ~ContainsVertex(face, i)
                     /\ FacePlaneDist(face, pts[i]) > PlaneDistTol }
GetFarthestPt(face, outside) ==
  IF ~face.normal.ok THEN outside \cup {Unset}
  ELSE LET cand == FarCandidates(face, outside)
       IN IF cand = {} THEN {Unset}
          ELSE LET m == SetMax({ FacePlaneDist(face, pts[i]) : i \in cand })
               IN { i \in cand : FacePlaneDist(face, pts[i]) = m }

\* ----------------------------------------------------- update_exterior_pts
\* Lines 226-235 for one point: "remove", "check" or "none".
RECURSIVE PoppedScan(_, _, _)
PoppedScan(popped, i, opi) ==
  IF i > Len(popped) THEN "none"
  ELSE IF ContainsVertex(popped[i], opi) THEN "remove"
  ELSE IF FaceVisible(popped[i], pts[opi]) THEN "check"
  ELSE PoppedScan(popped, i + 1, opi)
\* Only the first new face is tried.
SeenByFirstNew(nf, ci) == Len(nf) > 0 /\ FaceVisible(nf[1], pts[ci])
\* Lines 242-255 for one checked point: does some new face see it?
SeenByNew(nf, ci) == \E k \in 1..Len(nf) : FaceVisible(nf[k], pts[ci])
\* Every checked point erased, whether a new face sees it or not; and only the
\* vertices of popped faces erased.
RemovedPtsAllChecked(nf, popped, outside) ==
  { opi \in outside : PoppedScan(popped, 1, opi) # "none" }
RemovedPtsVertexOnly(nf, popped, outside) ==
  { opi \in outside : PoppedScan(popped, 1, opi) = "remove" }
\* The points erased from m_outsidePts (lines 257-259).
RemovedPts(nf, popped, outside) ==
  { opi \in outside : PoppedScan(popped, 1, opi) = "remove" }
    \cup { ci \in outside : PoppedScan(popped, 1, ci) = "check" /\ ~SeenByNew(nf, ci) }
\* The erase loop (lines 257-259) left out.
UpdateExteriorPtsNoErase(nf, popped, outside) == outside
UpdateExteriorPts(nf, popped, outside) == outside \ RemovedPts(nf, popped, outside)

\* ----------------------------------------------------------------- compute
\* Line 134: the face on horizon edge he and the farthest point.
NewFace(id, farIdx, he) == HullFace(id, farIdx, he.p, he.q)

\* Lines 133-138: a new face per horizon edge, in order; a throw ends the loop.
RECURSIVE AddNewFaces(_, _, _, _)
AddNewFaces(hes, k, farIdx, st) ==
  IF k > Len(hes) \/ ~st.ok THEN st
  ELSE LET r == SetFace(NewFace(st.id, farIdx, hes[k]), st.faces, st.em, st.ctr)
       IN AddNewFaces(hes, k + 1, farIdx,
            [st EXCEPT !.id = st.id + 1, !.faces = r.faces, !.em = r.em,
                       !.ok = r.ok,
                       !.tested = st.tested \cup {r.face.id},
                       !.q = IF r.ok THEN Append(st.q, r.face.id) ELSE st.q,
                       !.nf = IF r.ok THEN Append(st.nf, r.face) ELSE st.nf])

\* Lines 117-128: the three neighbours of a popped face.
RECURSIVE ScanAdj(_, _, _, _)
ScanAdj(r, i, farPt, st) ==
  IF i > 3 THEN st
  ELSE IF ~IsValid(r.adj[i]) THEN ScanAdj(r, i + 1, farPt, st)
  ELSE IF FaceVisible(r.adj[i], farPt)
       THEN ScanAdj(r, i + 1, farPt, [st EXCEPT !.popQ = Append(st.popQ, r.adj[i].id)])
       ELSE ScanAdj(r, i + 1, farPt, [st EXCEPT !.he = Append(st.he, r.edges[i])])

\* The front of the queue read but not popped.
DequeueFrontKeep(q) == q
\* What a discarded iteration does to the work queue (lines 99-102).
DequeueFront(q) == Tail(q)

\* The orders in which the ids of m_faces can be queued (lines 84-86): the
\* iteration order of the map is not specified.
QueueOrders(ids) ==
  { q \in [1..Cardinality(ids) -> ids] :
      \A i, j \in 1..Cardinality(ids) : i # j => q[i] # q[j] }

Init ==
  /\ pts \in Inputs
  /\ nPts = Cardinality(DOMAIN pts)
  /\ outsidePts = DOMAIN pts
  /\ faces = << >>
  /\ edgeFaceMap = << >>
  /\ center = <<0, 0, 0>>
  /\ best = << >>
  /\ curFaceId = 0
  /\ faceQ = << >>
  /\ fi = Unset
  /\ fpi = Unset
  /\ popQ = << >>
  /\ horizonEdges = << >>
  /\ poppedFaces = << >>
  /\ newFaces = << >>
  /\ centerTested = {}
  /\ farSelected = {}
  /\ pc = "start"
  /\ err = ""
  /\ errAt = 0

\* compute, line 82: create_initial_simplex.
CreateInitialSimplex ==
  /\ pc = "start"
  /\ \E o \in SimplexOutcomes :
       IF ~o.ok
       THEN /\ pc' = "failed"
            /\ err' = o.err
            /\ errAt' = o.at
            /\ UNCHANGED << outsidePts, faces, edgeFaceMap, center, best,
                            curFaceId, centerTested >>
       ELSE LET ctr == SimplexCenter(o.best)
                st == SeedFaces(SimplexFaces(o.best, curFaceId), 1,
                        [faces |-> faces, em |-> edgeFaceMap, ctr |-> ctr,
                         ok |-> TRUE, set |-> << >>, tested |-> centerTested])
            IN /\ best' = o.best
               /\ center' = ctr
               /\ curFaceId' = curFaceId + 4
               /\ faces' = st.faces
               /\ edgeFaceMap' = st.em
               /\ centerTested' = st.tested
               /\ IF st.ok
                  THEN /\ outsidePts' = PruneOutside(st.set, outsidePts)
                       /\ pc' = "seed"
                       /\ UNCHANGED << err, errAt >>
                  ELSE /\ outsidePts' = outsidePts
                       /\ pc' = "corrupt"
                       /\ err' = ErrEdgeMap
                       /\ errAt' = ThrowEdgeMap
  /\ UNCHANGED << pts, nPts, faceQ, fi, fpi, popQ, horizonEdges, poppedFaces,
                  newFaces, farSelected >>

\* compute, lines 83-86: the work queue seeded with the ids of m_faces.
SeedFaceQueue ==
  /\ pc = "seed"
  /\ \E q \in QueueOrders(DOMAIN faces) : faceQ' = q
  /\ pc' = "loop"
  /\ UNCHANGED << pts, nPts, outsidePts, faces, edgeFaceMap, center, best,
                  curFaceId, fi, fpi, popQ, horizonEdges, poppedFaces, newFaces,
                  centerTested, farSelected, err, errAt >>

\* compute, lines 97-106: a face id dequeued; discarded, or a flood started.
Dequeue ==
  /\ pc = "loop"
  /\ faceQ # << >>
  /\ fi' = Head(faceQ)
  /\ faceQ' = DequeueFront(faceQ)
  /\ IF ~HasFace(faces, Head(faceQ))
     THEN UNCHANGED << fpi, popQ, horizonEdges, poppedFaces, farSelected, pc >>
     ELSE \E far \in GetFarthestPt(faces[Head(faceQ)], outsidePts) :
            /\ fpi' = far
            /\ IF far = Unset
               THEN UNCHANGED << popQ, horizonEdges, poppedFaces, farSelected, pc >>
               ELSE /\ farSelected' = farSelected \cup {far}
                    /\ popQ' = Append(popQ, Head(faceQ))
                    /\ horizonEdges' = << >>
                    /\ poppedFaces' = << >>
                    /\ pc' = "flood"
  /\ UNCHANGED << pts, nPts, outsidePts, faces, edgeFaceMap, center, best,
                  curFaceId, newFaces, centerTested, err, errAt >>

\* compute, lines 107-129: one turn of the cavity flood.
Flood ==
  /\ pc = "flood"
  /\ popQ # << >>
  /\ LET r == PopFace(Head(popQ), faces, edgeFaceMap)
     IN IF ~IsValid(r.face)
        THEN /\ popQ' = Tail(popQ)
             /\ UNCHANGED << faces, edgeFaceMap, horizonEdges, poppedFaces >>
        ELSE LET st == ScanAdj(r, 1, pts[fpi], [popQ |-> Tail(popQ), he |-> horizonEdges])
             IN /\ faces' = r.faces
                /\ edgeFaceMap' = r.em
                /\ poppedFaces' = Append(poppedFaces, r.face)
                /\ popQ' = st.popQ
                /\ horizonEdges' = st.he
  /\ UNCHANGED << pts, nPts, outsidePts, center, best, curFaceId, faceQ, fi, fpi,
                  newFaces, centerTested, farSelected, pc, err, errAt >>

\* compute, lines 131-138: the cavity closed with a face per horizon edge.
Retriangulate ==
  /\ pc = "flood"
  /\ popQ = << >>
  /\ LET st == AddNewFaces(horizonEdges, 1, fpi,
                 [id |-> curFaceId, faces |-> faces, em |-> edgeFaceMap,
                  ctr |-> center, ok |-> TRUE, q |-> faceQ, nf |-> << >>,
                  tested |-> centerTested])
     IN /\ curFaceId' = st.id
        /\ faces' = st.faces
        /\ edgeFaceMap' = st.em
        /\ faceQ' = st.q
        /\ newFaces' = st.nf
        /\ centerTested' = st.tested
        /\ pc' = IF st.ok THEN "update" ELSE "corrupt"
        /\ err' = IF st.ok THEN err ELSE ErrEdgeMap
        /\ errAt' = IF st.ok THEN errAt ELSE ThrowEdgeMap
  /\ UNCHANGED << pts, nPts, outsidePts, center, best, fi, fpi, popQ,
                  horizonEdges, poppedFaces, farSelected >>

\* compute, line 140: update_exterior_pts.
UpdateExterior ==
  /\ pc = "update"
  /\ outsidePts' = UpdateExteriorPts(newFaces, poppedFaces, outsidePts)
  /\ pc' = "loop"
  /\ UNCHANGED << pts, nPts, faces, edgeFaceMap, center, best, curFaceId, faceQ,
                  fi, fpi, popQ, horizonEdges, poppedFaces, newFaces,
                  centerTested, farSelected, err, errAt >>

\* compute, line 97: the work queue is empty, compute returns.
Finish ==
  /\ pc = "loop"
  /\ faceQ = << >>
  /\ pc' = "done"
  /\ UNCHANGED << pts, nPts, outsidePts, faces, edgeFaceMap, center, best,
                  curFaceId, faceQ, fi, fpi, popQ, horizonEdges, poppedFaces,
                  newFaces, centerTested, farSelected, err, errAt >>

Next ==
  \/ CreateInitialSimplex
  \/ SeedFaceQueue
  \/ Dequeue
  \/ Flood
  \/ Retriangulate
  \/ UpdateExterior
  \/ Finish

Spec == Init /\ [][Next]_vars

\* compute runs to its end without interruption: a step that can be taken is
\* taken.  Weak fairness of every action.  For the three actions that call the
\* recursive registry operations it is written out: WF_vars(A) is
\* []<>~ENABLED <<A>>_vars \/ []<><<A>>_vars, and <<A>>_vars is enabled exactly
\* when A's guard holds, a step of A always changing pc, popQ or faces.
FairSpec ==
  /\ Spec
  /\ WF_vars(SeedFaceQueue)
  /\ WF_vars(Dequeue)
  /\ WF_vars(UpdateExterior)
  /\ WF_vars(Finish)
  /\ []<>(pc # "start") \/ []<><<CreateInitialSimplex>>_vars
  /\ []<>~(pc = "flood" /\ popQ # << >>) \/ []<><<Flood>>_vars
  /\ []<>~(pc = "flood" /\ popQ = << >>) \/ []<><<Retriangulate>>_vars

\* ------------------------------------------------------------- properties
Range(q) == { q[i] : i \in 1..Len(q) }
AllVerts == UNION { FaceVerts(faces[id]) : id \in DOMAIN faces }
AtRest == pc \in {"seed", "loop", "done"}
EdgeKeys(f) == { EdgeKey(Edge(f, ei)) : ei \in 0..2 }

\* Geometry of the input alone: the planes through three input points that
\* have every input point on one closed side, and the points strictly inside
\* the convex hull of the input.
Triples == { t \in PtIdx \X PtIdx \X PtIdx : t[1] < t[2] /\ t[2] < t[3] }
TripleNormal(t) == Cross(Sub(pts[t[2]], pts[t[1]]), Sub(pts[t[3]], pts[t[1]]))
Side(t, i) == Dot(TripleNormal(t), Sub(pts[i], pts[t[1]]))
Supporting(t) ==
  /\ LenSq(TripleNormal(t)) # 0
  /\ \/ \A i \in PtIdx : Side(t, i) <= 0
     \/ \A i \in PtIdx : Side(t, i) >= 0
AllCoplanar == \A t \in Triples : \A i \in PtIdx : Side(t, i) = 0
StrictlyInsideInput(p) ==
  ~AllCoplanar /\ \A t \in Triples : Supporting(t) => Side(t, p) # 0

\* C1: at rest (after seeding, after every completed iteration, at the end)
\* every edge of every live face has an adjacency pair of exactly two distinct
\* face ids, both live, both having that edge.
C1_ManifoldAtRest ==
  AtRest =>
    \A id \in DOMAIN faces : \A ei \in 0..2 :
      LET e == Edge(faces[id], ei)
          pr == GetEdgeFaces(edgeFaceMap, e)
      IN /\ HasEdge(edgeFaceMap, e)
         /\ pr.p # Unset /\ pr.q # Unset /\ pr.p # pr.q
         /\ id \in {pr.p, pr.q}
         /\ \A g \in {pr.p, pr.q} :
              HasFace(faces, g) /\ EdgeKey(e) \in EdgeKeys(faces[g])
\* A completed hull that the main loop has grown by at least two points.
C1_Witness ==
  pc = "done" /\ Cardinality(farSelected) >= 2 /\ Cardinality(DOMAIN faces) >= 8

\* C2: at termination no input point is face_visible from any remaining face:
\* its signed plane distance to the face is at most the tolerance.
C2_GlobalConvexity ==
  pc = "done" =>
    \A id \in DOMAIN faces : \A i \in PtIdx :
      /\ ~FaceVisible(faces[id], pts[i])
      /\ faces[id].normal.ok => FacePlaneDist(faces[id], pts[i]) <= PlaneDistTol
\* A completed hull of at least two added points that leaves an input point out.
C2_Witness ==
  pc = "done" /\ Cardinality(farSelected) >= 2 /\ PtIdx \ AllVerts # {}

\* C3: once the initial simplex is built the main loop terminates: the work
\* queue becomes empty and compute returns, and every cavity flood drains its
\* pop queue.
C3_Terminates ==
  /\ (pc = "seed") ~> (pc = "done" /\ faceQ = << >>)
  /\ (pc = "flood") ~> (pc = "flood" /\ popQ = << >>)
\* compute has returned after queueing faces beyond the four of the simplex.
C3_Witness ==
  pc = "done" /\ faceQ = << >> /\ popQ = << >> /\ curFaceId > 4

\* C4: when compute finishes the outside set is empty; between iterations
\* every point still in it is face_visible from a live face whose id is in
\* the work queue.
C4_OutsideEmptyAtEnd ==
  /\ pc = "done" => outsidePts = {}
  /\ pc = "loop" =>
       \A p \in outsidePts :
         \E k \in 1..Len(faceQ) :
           HasFace(faces, faceQ[k]) /\ FaceVisible(faces[faceQ[k]], pts[p])
\* Between two iterations, with points still outside after a cavity was closed.
C4_Witness ==
  pc = "loop" /\ farSelected # {} /\ outsidePts # {}

\* C5: with fewer than 4 points construction fails at the size test, before
\* any face: the face map and the edge map are empty, no face id was issued
\* and the main loop never runs.
C5_TooFewPointsFailsEarly ==
  (nPts < 4 /\ pc # "start") =>
    /\ pc = "failed"
    /\ err = ErrFewPoints /\ errAt = ThrowFewPoints
    /\ faces = << >> /\ edgeFaceMap = << >>
    /\ faceQ = << >> /\ curFaceId = 0 /\ centerTested = {}
C5_Witness == nPts < 4 /\ pc = "failed"

\* C6 as stated: more than 4 points, all coplanar: construction fails, with an
\* error distinct from the one for fewer than 4 points.
C6_CoplanarErrorDistinct ==
  (nPts > 4 /\ pc # "start" /\ AllCoplanar) =>
    pc = "failed" /\ faces = << >> /\ err # ErrFewPoints
\* C6, amended: more than 4 points, all coplanar: construction fails before
\* any face is created, with the very message thrown for fewer than 4 points;
\* only the throwing line differs.
C6_CoplanarFails ==
  (nPts > 4 /\ pc # "start" /\ AllCoplanar) =>
    /\ pc = "failed" /\ faces = << >>
    /\ err = ErrFewPoints
    /\ errAt \in {ThrowCoincident, ThrowCollinear, ThrowCoplanar}
C6_Witness == nPts > 4 /\ AllCoplanar /\ pc = "failed" /\ errAt = ThrowCoplanar

\* C7 as stated: a point whose signed distance is strictly negative against
\* every output face it is not a vertex of is a vertex of no output face.
NegativeOffOwnFaces(p) ==
  \A id \in DOMAIN faces :
    p \notin FaceVerts(faces[id]) => FacePlaneDist(faces[id], pts[p]) < 0
NegativeOffAllFaces(p) ==
  \A id \in DOMAIN faces : FacePlaneDist(faces[id], pts[p]) < 0
C8_OutsideShrinks ==
  [][ /\ outsidePts' \subseteq outsidePts
      /\ pc = "update" =>
           /\ fpi \in outsidePts /\ fpi \notin outsidePts'
           /\ Cardinality(outsidePts') < Cardinality(outsidePts) ]_vars
\* An iteration has just ended: its farthest point is a vertex of the new
\* faces and no longer outside.
C8_Witness ==
  /\ pc = "loop" /\ newFaces # << >>
  /\ fpi # Unset /\ newFaces[1].a = fpi /\ fpi \notin outsidePts

\* C9: set_face never fails to add a face id to an edge: the abort is never
\* reached, and when a cavity is about to be closed every horizon edge holds
\* exactly one face id, that of a live face, and one empty slot.
C9_EdgeAddNeverFails ==
  /\ pc # "corrupt" /\ err # ErrEdgeMap
  /\ (pc = "flood" /\ popQ = << >>) =>
       \A k \in 1..Len(horizonEdges) :
         LET pr == GetEdgeFaces(edgeFaceMap, horizonEdges[k])
         IN /\ (pr.p = Unset) # (pr.q = Unset)
            /\ HasFace(faces, IF pr.p = Unset THEN pr.q ELSE pr.p)
\* A cavity of more than one face closed with at least 4 new faces.
C9_Witness ==
  pc = "update" /\ Len(newFaces) >= 4 /\ Len(poppedFaces) >= 2 /\ err = ""

\* C10 as stated: only the 4 simplex faces are tested against Center.
C10_OnlySimplexTested == centerTested \subseteq 0..3
\* C10, amended: set_face tests every face against Center, those of the main
\* loop too, but for them the test never fires: a face made from horizon edge
\* (p, q) and farthest point P is stored with vertices exactly (P, p, q), its
\* normal that of this winding, and Center is not on its positive side.
C10_NewFacesKeepWinding ==
  /\ pc = "update" =>
       /\ Len(newFaces) = Len(horizonEdges)
       /\ \A k \in 1..Len(newFaces) :
            LET f == newFaces[k]
            IN /\ f.a = fpi /\ f.b = horizonEdges[k].p /\ f.c = horizonEdges[k].q
               /\ f.normal = FaceNormal(f)
               /\ HasFace(faces, f.id) /\ faces[f.id] = f
               /\ f.id \in centerTested
  /\ \A id \in DOMAIN faces : ~FaceVisible(faces[id], center)
\* New faces have just been registered, and tested against Center.
C10_Witness ==
  pc = "update" /\ Len(newFaces) >= 3 /\ newFaces[1].id \in centerTested
=============================================================================
